---- MODULE Spec2Model ----
(***************************************************************************)
(* Model of fvalues/f.py: the class F (a str that remembers its parts) and *)
(* the dataclass FValue.  Strings are sequences of one-character strings.  *)
(* Python objects are records tagged by their type in field t.             *)
(***************************************************************************)
EXTENDS Integers, Sequences, FiniteSets, TLC

VARIABLES self, last

vars == <<self, last>>

----------------------------------------------------------------------------
(* Bounds of the model *)

\* longest text of an F the model keeps
MaxLen == 3
\* most parts an F of the model holds, the parts of the F nested in it counted in
MaxSize == 3

\* the characters texts are made of; " " is the only whitespace among them
Chars == {" ", "a"}

Whitespace == {" "}

----------------------------------------------------------------------------
(* Python values *)

None == [t |-> "None"]

PyStr(s) == [t |-> "str", s |-> s]

PyInt(n) == [t |-> "int", n |-> n]

\* an instance of F: the str content and the attribute parts
MkF(s, parts) == [t |-> "F", s |-> s, parts |-> parts]

FValue(source, value, formatted) ==
    [t |-> "FValue", source |-> source, value |-> value, formatted |-> formatted]

\* isinstance(v, str): F is a subclass of str
IsStr(v) == v.t \in {"str", "F"}

IsF(v) == v.t = "F"

IsFValue(v) == v.t = "FValue"

Digit(n) == CASE n = 0 -> "0" [] n = 1 -> "1" [] n = 2 -> "2" [] n = 3 -> "3"
              [] n = 4 -> "4" [] n = 5 -> "5" [] n = 6 -> "6" [] n = 7 -> "7"
              [] n = 8 -> "8" [] OTHER -> "9"

\* str(v) for the values of the model
StrOf(v) == IF IsStr(v) THEN v.s ELSE IF v.t = "int" THEN <<Digit(v.n)>> ELSE <<>>

\* outcome of a call: a returned value or a raised exception
Ok(v) == [status |-> "ok", val |-> v]

Raise(e) == [status |-> e, val |-> None]

\* an outcome together with the warnings the call emitted
Warned(r, w) == [status |-> r.status, val |-> r.val, warnings |-> w]

----------------------------------------------------------------------------
(* F.__new__ with explicit parts *)

\* the text a part shows: part.formatted if isinstance(part, FValue) else part
Displayed(part) == IF IsFValue(part) THEN StrOf(part.formatted) ELSE StrOf(part)

RECURSIVE Join(_)
Join(parts) == IF parts = <<>> THEN <<>> ELSE Displayed(Head(parts)) \o Join(Tail(parts))

\* New without the assertion
NewUnchecked(s, parts) == Ok(MkF(s, parts))

\* New comparing the lengths only
NewLengthChecked(s, parts) ==
    IF Len(s) = Len(Join(parts)) THEN Ok(MkF(s, parts)) ELSE Raise("AssertionError")

New(s, parts) ==
    LET expected == Join(parts)
    IN  IF s = expected THEN Ok(MkF(s, parts)) ELSE Raise("AssertionError")

----------------------------------------------------------------------------
(* F.flatten *)

RECURSIVE flatten(_)
RECURSIVE FlattenParts(_)
FlattenParts(parts) ==
    IF parts = <<>> THEN Ok(<<>>)
    ELSE LET part == Head(parts)
             first == IF IsFValue(part) /\ IsF(part.value)
                      THEN LET r == flatten(part.value)
                           IN  IF r.status = "ok" THEN Ok(r.val.parts) ELSE r
                      ELSE IF IsF(part)
                      THEN LET r == flatten(part)
                           IN  IF r.status = "ok" THEN Ok(r.val.parts) ELSE r
                      ELSE Ok(<<part>>)
         IN  IF first.status # "ok" THEN first
             ELSE LET rest == FlattenParts(Tail(parts))
                  IN  IF rest.status # "ok" THEN rest ELSE Ok(first.val \o rest.val)

flatten(x) ==
    LET r == FlattenParts(x.parts)
    IN  IF r.status # "ok" THEN r ELSE New(x.s, r.val)

----------------------------------------------------------------------------
(* str.lstrip / str.rstrip and F._strip *)

\* the characters a call strips: whitespace when no argument is given
CharsOf(args) == IF args = <<>> THEN Whitespace ELSE args[1]

RECURSIVE StrLstrip(_, _)
StrLstrip(s, chars) ==
    IF s # <<>> /\ Head(s) \in chars THEN StrLstrip(Tail(s), chars) ELSE s

RECURSIVE StrRstrip(_, _)
StrRstrip(s, chars) ==
    IF s # <<>> /\ s[Len(s)] \in chars THEN StrRstrip(SubSeq(s, 1, Len(s) - 1), chars) ELSE s

\* getattr(s, method)(*args) on a plain str
StrMethod(s, method, args) ==
    IF method = "lstrip" THEN StrLstrip(s, CharsOf(args)) ELSE StrRstrip(s, CharsOf(args))

\* list index 0 or -1 as a position of a non-empty list
At(parts, index) == IF index = 0 THEN 1 ELSE Len(parts)

DelAt(parts, index) ==
    IF index = 0 THEN Tail(parts) ELSE SubSeq(parts, 1, Len(parts) - 1)

SetAt(parts, index, part) == [parts EXCEPT ![At(parts, index)] = part]

RECURSIVE _strip(_, _, _, _)
RECURSIVE StripLoop(_, _, _, _)
\* the loop keeping a part that trimmed to empty
StripLoopKeepsEmpty(parts, index, method, args) ==
    IF parts = <<>> THEN Raise("IndexError")
    ELSE LET part == parts[At(parts, index)]
             s0 == IF IsFValue(part) THEN part.formatted ELSE part
             r == IF IsF(s0) THEN _strip(s0, index, method, args)
                  ELSE Ok(PyStr(StrMethod(s0.s, method, args)))
         IN  IF r.status # "ok" THEN r
             ELSE LET np == IF IsFValue(part)
                            THEN FValue(part.source, part.value, r.val)
                            ELSE r.val
                  IN  Ok(SetAt(parts, index, np))

\* the loop rebuilding a trimmed FValue from the trimmed text alone
StripLoopDropsValue(parts, index, method, args) ==
    IF parts = <<>> THEN Raise("IndexError")
    ELSE LET part == parts[At(parts, index)]
             s0 == IF IsFValue(part) THEN part.formatted ELSE part
             r == IF IsF(s0) THEN _strip(s0, index, method, args)
                  ELSE Ok(PyStr(StrMethod(s0.s, method, args)))
         IN  IF r.status # "ok" THEN r
             ELSE IF r.val.s # <<>>
                  THEN LET np == IF IsFValue(part)
                                 THEN FValue(part.source, r.val, r.val)
                                 ELSE r.val
                       IN  Ok(SetAt(parts, index, np))
                  ELSE StripLoop(DelAt(parts, index), index, method, args)

\* the while True loop of _strip over the local list parts
StripLoop(parts, index, method, args) ==
    IF parts = <<>> THEN Raise("IndexError")
    ELSE LET part == parts[At(parts, index)]
             s0 == IF IsFValue(part) THEN part.formatted ELSE part
             \* s.lstrip / s.rstrip: F's own method when s is an F
             r == IF IsF(s0) THEN _strip(s0, index, method, args)
                  ELSE Ok(PyStr(StrMethod(s0.s, method, args)))
         IN  IF r.status # "ok" THEN r
             ELSE IF r.val.s # <<>>
                  THEN LET np == IF IsFValue(part)
                                 THEN FValue(part.source, part.value, r.val)
                                 ELSE r.val
                       IN  Ok(SetAt(parts, index, np))
                  ELSE StripLoop(DelAt(parts, index), index, method, args)

_strip(x, index, method, args) ==
    LET r == StripLoop(x.parts, index, method, args)
    IN  IF r.status # "ok" THEN r
        ELSE New(StrMethod(x.s, method, args), r.val)

lstrip(x, args) == _strip(x, 0, "lstrip", args)

rstrip(x, args) == _strip(x, -1, "rstrip", args)

strip(x, args) ==
    LET l == lstrip(x, args)
    IN  IF l.status # "ok" THEN l ELSE rstrip(l.val, args)

----------------------------------------------------------------------------
(* Syntax nodes, the caller's frame and F._parts_from_node *)

\* ast.Constant
Constant(value) == [k |-> "Constant", value |-> value]

\* ast.FormattedValue: the sub-expression expr with format spec spec
FormattedValue(expr, spec) == [k |-> "FormattedValue", expr |-> expr, spec |-> spec]

\* ast.JoinedStr
JoinedStr(values) == [k |-> "JoinedStr", values |-> values]

\* any other expression, written src in the source (a name, a call, ...)
Expr(src) == [k |-> "Expr", src |-> src]

\* ast.BinOp
BinOp(left, op, right) == [k |-> "BinOp", op |-> op, left |-> left, right |-> right]

\* ast.AugAssign
AugAssign(target, op, value) == [k |-> "AugAssign", op |-> op, target |-> target, value |-> value]

\* ast.Call with its arguments
Call(args) == [k |-> "Call", args |-> args]

\* executing found no node
NoNode == [k |-> "None"]

\* frame.f_locals of the caller: x is the F at hand, y the other operand
Frame(x, y) ==
    [x |-> x, y |-> y, w |-> PyStr(<<" ", "a">>), e |-> PyStr(<<>>), n |-> PyInt(7)]

\* eval(source, frame.f_globals, frame.f_locals)
Eval(source, frame) == frame[source]

\* what an f-string makes of {value:spec}, for the specs of the model: "" gives
\* the plain str(value); ">2" pads on the left with spaces to width 2, and gives
\* back the string itself, an F if it is one, when it is wide enough
Format(value, spec) ==
    LET s == StrOf(value)
    IN  IF spec = ">2"
        THEN IF Len(s) < 2 THEN PyStr([i \in 1..(2 - Len(s)) |-> " "] \o s)
             ELSE IF IsStr(value) THEN value ELSE PyStr(s)
        ELSE PyStr(s)

\* the value Python gives the expression node in frame
RECURSIVE EvalNode(_, _)
RECURSIVE EvalValues(_, _)
EvalValues(values, frame) ==
    IF values = <<>> THEN <<>>
    ELSE StrOf(EvalNode(Head(values), frame)) \o EvalValues(Tail(values), frame)

EvalNode(node, frame) ==
    CASE node.k = "Constant" -> node.value
      [] node.k = "JoinedStr" -> PyStr(EvalValues(node.values, frame))
      [] node.k = "FormattedValue" -> PyStr(StrOf(Format(Eval(node.expr, frame), node.spec)))
      [] OTHER -> Eval(node.src, frame)

RECURSIVE _parts_from_node(_, _, _)
RECURSIVE PartsFromValues(_, _)
\* the for loop over node.values of a JoinedStr
PartsFromValues(values, frame) ==
    IF values = <<>> THEN Ok(<<>>)
    ELSE LET first == _parts_from_node(Head(values), frame, None)
         IN  IF first.status # "ok" THEN first
             ELSE LET rest == PartsFromValues(Tail(values), frame)
                  IN  IF rest.status # "ok" THEN rest ELSE Ok(first.val \o rest.val)

_parts_from_node(node, frame, value) ==
    CASE node.k = "Constant" ->
            IF IsStr(node.value) THEN Ok(<<node.value>>) ELSE Raise("AssertionError")
      [] node.k = "JoinedStr" -> PartsFromValues(node.values, frame)
      [] node.k = "FormattedValue" ->
            LET source == node.expr
                v == Eval(source, frame)
                formatted == Format(Eval(source, frame), node.spec)
            IN  Ok(<<FValue(source, v, formatted)>>)
      [] OTHER ->
            IF IsStr(value) THEN Ok(<<FValue(node.src, value, value)>>)
            ELSE Raise("AssertionError")

----------------------------------------------------------------------------
(* F.__new__ without parts *)

NoSourceWarning == "Couldn't get source node of F() call"

\* F(s) without the fallback for a missing node
NewFromSourceNoFallback(s, node, frame) ==
    IF node.k # "Call"
    THEN Warned(Raise("TypeError"), <<>>)
    ELSE LET arg == node.args[1]
             p == _parts_from_node(arg, frame, s)
         IN  IF p.status # "ok" THEN Warned(p, <<>>)
             ELSE Warned(New(StrOf(s), p.val), <<>>)

\* s is the argument of F(s); node is what executing found for the caller's frame.
\* The outcome carries the warnings the call emitted.
NewFromSource(s, node, frame) ==
    IF node.k = "None"
    THEN Warned(New(StrOf(s), <<s>>), <<NoSourceWarning>>)
    ELSE IF node.k # "Call"
    THEN Warned(Raise("TypeError"), <<>>)
    ELSE LET arg == node.args[1]
             p == _parts_from_node(arg, frame, s)
         IN  IF p.status # "ok" THEN Warned(p, <<>>)
             ELSE Warned(New(StrOf(s), p.val), <<>>)

----------------------------------------------------------------------------
(* F.__deepcopy__ *)

__deepcopy__(x) == New(StrOf(x), x.parts)

----------------------------------------------------------------------------
(* F._add, F.__add__, F.__radd__ *)

\* _add putting self on the left whatever is_left says
_addIgnoresSide(x, other, is_left, node, frame) ==
    LET parts == <<x, other>>
        value == StrOf(parts[1]) \o StrOf(parts[2])
    IN  IF node.k \in {"BinOp", "AugAssign"} /\ node.op = "Add"
        THEN LET left_node == IF node.k = "AugAssign" THEN node.target ELSE node.left
                 right_node == IF node.k = "AugAssign" THEN node.value ELSE node.right
                 left_parts == _parts_from_node(left_node, frame, parts[1])
                 right_parts == _parts_from_node(right_node, frame, parts[2])
             IN  IF left_parts.status # "ok" THEN left_parts
                 ELSE IF right_parts.status # "ok" THEN right_parts
                 ELSE New(value, left_parts.val \o right_parts.val)
        ELSE New(value, parts)

_add(x, other, is_left, node, frame) ==
    LET parts == IF is_left THEN <<x, other>> ELSE <<other, x>>
        value == StrOf(parts[1]) \o StrOf(parts[2])
    IN  IF node.k \in {"BinOp", "AugAssign"} /\ node.op = "Add"
        THEN LET left_node == IF node.k = "AugAssign" THEN node.target ELSE node.left
                 right_node == IF node.k = "AugAssign" THEN node.value ELSE node.right
                 left_parts == _parts_from_node(left_node, frame, parts[1])
                 right_parts == _parts_from_node(right_node, frame, parts[2])
             IN  IF left_parts.status # "ok" THEN left_parts
                 ELSE IF right_parts.status # "ok" THEN right_parts
                 ELSE New(value, left_parts.val \o right_parts.val)
        ELSE New(value, parts)

\* __add__(self, other)
__add__(x, other, node, frame) == _add(x, other, TRUE, node, frame)

\* __radd__(self, other)
__radd__(x, other, node, frame) == _add(x, other, FALSE, node, frame)

----------------------------------------------------------------------------
(* The inputs of the model *)

RECURSIVE Size(_)
RECURSIVE SizeParts(_)
Max(a, b) == IF a >= b THEN a ELSE b

\* the number of parts a value holds, at every level of nesting
Size(v) ==
    CASE v.t = "F" -> Len(v.parts) + SizeParts(v.parts)
      [] v.t = "FValue" -> Max(Size(v.value), Size(v.formatted))
      [] OTHER -> 0

SizeParts(parts) ==
    IF parts = <<>> THEN 0 ELSE Size(Head(parts)) + SizeParts(Tail(parts))

Fits(v) == Len(v.s) <= MaxLen /\ Size(v) <= MaxSize

\* texts of at most n characters
Texts(n) == UNION {[1..k -> Chars] : k \in 0..n}

\* parts a caller passes to F(s, parts)
PartPool ==
    {PyStr(<<" ">>), PyStr(<<"a">>), self, FValue("x", self, PyStr(self.s))}

PartSeqs == UNION {[1..k -> PartPool] : k \in 0..2}

\* the children of an f-string
JoinedValues ==
    {Constant(PyStr(c)) : c \in Texts(1) \ {<<>>}}
    \cup {FormattedValue(v, "") : v \in {"x", "w", "e"}}
    \cup {FormattedValue("x", ">2")}

\* f-strings of three children: what stands at the ends and in the middle
JoinedEnds == {Constant(PyStr(<<" ">>)), FormattedValue("e", "")}

JoinedMiddles ==
    {Constant(PyStr(<<"a">>)), FormattedValue("e", ""), FormattedValue("w", "")}

JoinedSeqs ==
    UNION {[1..k -> JoinedValues] : k \in 0..2}
    \cup {<<l, m, r>> : l \in JoinedEnds, m \in JoinedMiddles, r \in JoinedEnds}

\* the parser merges adjacent literal segments of an f-string into one Constant
Parsed(values) ==
    \A i \in 1..(Len(values) - 1) :
        ~(values[i].k = "Constant" /\ values[i + 1].k = "Constant")

\* the argument expression of a call F(arg)
ArgNodes ==
    {Constant(PyStr(c)) : c \in Texts(1)} \cup {Constant(PyInt(7))}
    \cup {Expr(v) : v \in {"x", "w", "n"}}
    \cup {JoinedStr(vs) : vs \in {v \in JoinedSeqs : Parsed(v)}}

\* the other operand of an addition, as written
OperandNodes ==
    {Constant(PyStr(c)) : c \in Texts(1)} \cup {Expr("y")}
    \cup {JoinedStr(<<FormattedValue(v, "")>>) : v \in {"w", "e"}}

\* the values the name y may be bound to
YValues == {PyStr(<<>>), PyStr(<<"a">>), self}

StripArgs == {<<>>, <<{"a"}>>, <<{" ", "a"}>>}

----------------------------------------------------------------------------
(* The operations *)

\* no call is pending: the caller is about to call an operation on self
Idle ==
    [op |-> "none", recv |-> None, args |-> <<>>, status |-> "ok", val |-> None,
     warnings |-> <<>>]

\* the caller calls an operation on self; the call's outcome is recorded in last.
\* No operation assigns to the receiver: self is left as it is.
Return(op, args, r, w) ==
    /\ last = Idle
    /\ r.status = "ok" => Fits(r.val)
    /\ last' = [op |-> op, recv |-> self, args |-> args, status |-> r.status,
                val |-> r.val, warnings |-> w]
    /\ UNCHANGED self

Init ==
    /\ self = MkF(<<>>, <<>>)
    /\ last = Idle

\* the caller goes on with what the call returned (s = s.strip(), s += "!",
\* s.strip().strip("ho")), or with self when the call raised
Bind ==
    /\ last # Idle
    /\ self' = IF last.status = "ok" THEN last.val ELSE self
    /\ last' = Idle

\* F(s, parts)
Construct ==
    \E parts \in PartSeqs :
      \E s \in {Join(parts), <<"a">>} :
        Return("construct", <<s, parts>>, New(s, parts), <<>>)

\* F(arg) at a call site whose source executing can read
ConstructFromSource ==
    \E arg \in ArgNodes :
      LET frame == Frame(self, None)
          s == EvalNode(arg, frame)
          r == NewFromSource(s, Call(<<arg>>), frame)
      IN  Return("new", <<s, arg>>, r, r.warnings)

\* F(s) where executing finds no node (code run by eval or exec)
ConstructNoNode ==
    \E s \in {PyStr(c) : c \in Texts(1)} \cup {self} :
      LET r == NewFromSource(s, NoNode, Frame(self, None))
      IN  Return("new_no_node", <<s>>, r, r.warnings)

\* F reached through a node that is not a call
ConstructNotCall ==
    \E s \in {PyStr(<<"a">>)} :
      LET r == NewFromSource(s, Expr("F"), Frame(self, None))
      IN  Return("new_not_call", <<s>>, r, r.warnings)

DeepCopy == Return("deepcopy", <<>>, __deepcopy__(self), <<>>)

Flatten == Return("flatten", <<>>, flatten(self), <<>>)

Lstrip == \E args \in StripArgs : Return("lstrip", args, lstrip(self, args), <<>>)

Rstrip == \E args \in StripArgs : Return("rstrip", args, rstrip(self, args), <<>>)

Strip == \E args \in StripArgs : Return("strip", args, strip(self, args), <<>>)

\* self + other, self += other
Add ==
    \E onode \in OperandNodes, y \in YValues, k \in {"BinOp", "AugAssign", "None"} :
      LET frame == Frame(self, y)
          other == EvalNode(onode, frame)
          node == CASE k = "BinOp" -> BinOp(Expr("x"), "Add", onode)
                    [] k = "AugAssign" -> AugAssign(Expr("x"), "Add", onode)
                    [] OTHER -> NoNode
      IN  /\ onode.k # "Expr" => y = PyStr(<<>>)
          /\ Return("add", <<other, node>>, __add__(self, other, node, frame), <<>>)

\* other + self, other += self: Python calls __radd__ when other is a plain str
\* (an F on the left is served by its own __add__)
Radd ==
    \E onode \in OperandNodes, y \in YValues, k \in {"BinOp", "AugAssign", "None"} :
      LET frame == Frame(self, y)
          other == EvalNode(onode, frame)
          node == CASE k = "BinOp" -> BinOp(onode, "Add", Expr("x"))
                    [] k = "AugAssign" -> AugAssign(onode, "Add", Expr("x"))
                    [] OTHER -> NoNode
      IN  /\ onode.k # "Expr" => y = PyStr(<<>>)
          /\ k = "AugAssign" => onode.k = "Expr"
          /\ ~IsF(other)
          /\ Return("radd", <<other, node>>, __radd__(self, other, node, frame), <<>>)

Next ==
    \/ Bind
    \/ Construct
    \/ ConstructFromSource
    \/ ConstructNoNode
    \/ ConstructNotCall
    \/ DeepCopy
    \/ Flatten
    \/ Lstrip
    \/ Rstrip
    \/ Strip
    \/ Add
    \/ Radd

Spec == Init /\ [][Next]_vars

----------------------------------------------------------------------------
(* The properties *)

StripOps == {"lstrip", "rstrip", "strip"}

AddOps == {"add", "radd"}

\* a call is recorded and it returned
Returned(ops) == last.op \in ops /\ last.status = "ok"

\* Invariant I1 of one F
I1(x) == x.s = Join(x.parts)

RECURSIVE I1Deep(_)
\* I1 of a value and of every F held inside it
I1Deep(v) ==
    CASE v.t = "F" -> I1(v) /\ \A i \in 1..Len(v.parts) : I1Deep(v.parts[i])
      [] v.t = "FValue" -> I1Deep(v.value) /\ I1Deep(v.formatted)
      [] OTHER -> TRUE

\* C1: every F that exists, the receiver, what a call returned and every F
\* nested in them, has a text equal to the concatenation of the displayed
\* texts of its parts.
C1_Reconstruction ==
    /\ I1Deep(self)
    /\ (last.op # "none" /\ last.status = "ok") => I1Deep(last.val)

\* flatten has rewritten a nested F into other parts
C1_Witness ==
    /\ Returned({"flatten"})
    /\ last.val.parts # last.recv.parts
    /\ Len(last.val.parts) >= 2

\* C2: F(s, parts) raises the assertion error and returns nothing when the
\* displayed texts of parts do not concatenate to s, and otherwise returns an
\* F with text s that stores exactly parts.
C2_ExplicitParts ==
    last.op = "construct" =>
        LET s == last.args[1]
            parts == last.args[2]
        IN  IF s = Join(parts)
            THEN last.status = "ok" /\ last.val = MkF(s, parts)
            ELSE last.status = "AssertionError" /\ last.val = None

\* a construction refused although text and parts have the same length
C2_Witness ==
    /\ last.op = "construct"
    /\ last.status = "AssertionError"
    /\ Len(last.args[1]) = Len(Join(last.args[2]))

\* no part is an F and no FValue part has an F as value
NoNested(parts) ==
    \A i \in 1..Len(parts) :
        /\ ~IsF(parts[i])
        /\ IsFValue(parts[i]) => ~IsF(parts[i].value)

\* C3: flatten returns, for every F, an F with the same text none of whose
\* parts is an F or an FValue holding an F.
C3_FlattenReturnsFlat ==
    last.op = "flatten" =>
        /\ last.status = "ok"
        /\ last.val.s = last.recv.s
        /\ NoNested(last.val.parts)

\* C4: for every F x, x.flatten().flatten() equals x.flatten() in text and parts.
C4_FlattenIdempotent ==
    last.op = "flatten" =>
        /\ last.status = "ok"
        /\ flatten(last.val) = Ok(last.val)

\* what str.lstrip, str.rstrip, str.strip give on the plain text
PlainStrip(s, op, args) ==
    CASE op = "lstrip" -> StrLstrip(s, CharsOf(args))
      [] op = "rstrip" -> StrRstrip(s, CharsOf(args))
      [] OTHER -> StrRstrip(StrLstrip(s, CharsOf(args)), CharsOf(args))

\* C5: lstrip, rstrip and strip return, for every F and every charset, an F
\* whose text is the plain-string strip of the receiver's text and that
\* satisfies I1.
C5_StripText ==
    last.op \in StripOps =>
        /\ last.status = "ok"
        /\ last.val.s = PlainStrip(last.recv.s, last.op, last.args)
        /\ I1(last.val)

\* every character of s is one the call strips
AllTrimmable(s, args) == \A i \in 1..Len(s) : s[i] \in CharsOf(args)

\* C6: stripping an F whose whole text is trimmable returns the F with text ""
\* and parts ().
C6_StripAllTrimmable ==
    (last.op \in StripOps /\ AllTrimmable(last.recv.s, last.args)) =>
        /\ last.status = "ok"
        /\ last.val = MkF(<<>>, <<>>)

\* the positions of parts at the ends the operation trims
TrimmedEnds(op, parts) ==
    CASE op = "lstrip" -> {1}
      [] op = "rstrip" -> {Len(parts)}
      [] OTHER -> {1, Len(parts)}

\* C7 as stated: what a strip operation returns has no part, at any position,
\* with an empty displayed text, and has parts () when its text is empty.
C7_NoEmptyPartAnywhere ==
    Returned(StripOps) =>
        IF last.val.s = <<>> THEN last.val.parts = <<>>
        ELSE \A i \in 1..Len(last.val.parts) : Displayed(last.val.parts[i]) # <<>>

\* C7 amended: what a strip operation returns has, at each end the operation
\* trims (the first part for lstrip, the last for rstrip, both for strip), a
\* part with a non-empty displayed text, and has parts () when its text is
\* empty.
C7_NoEmptyPartAtTrimmedEnd ==
    Returned(StripOps) =>
        IF last.val.s = <<>> THEN last.val.parts = <<>>
        ELSE /\ last.val.parts # <<>>
             /\ \A i \in TrimmedEnds(last.op, last.val.parts) :
                    Displayed(last.val.parts[i]) # <<>>

\* a strip that removed a part which trimmed to empty and kept an empty part
\* away from the trimmed end
C7_Witness ==
    /\ Returned(StripOps)
    /\ Len(last.val.parts) < Len(last.recv.parts)
    /\ \E i \in 1..Len(last.val.parts) : Displayed(last.val.parts[i]) = <<>>

\* C8: self + other and other + self return an F whose text is the left
\* operand's text followed by the right operand's, and whose parts split into
\* parts showing the left operand's text followed by parts showing the right
\* operand's, with and without a resolved addition node.
C8_ConcatenationText ==
    last.op \in AddOps =>
        LET other == last.args[1]
            left == IF last.op = "add" THEN last.recv ELSE other
            right == IF last.op = "add" THEN other ELSE last.recv
            parts == last.val.parts
        IN  /\ last.status = "ok"
            /\ last.val.s = StrOf(left) \o StrOf(right)
            /\ \E k \in 0..Len(parts) :
                   /\ Join(SubSeq(parts, 1, k)) = StrOf(left)
                   /\ Join(SubSeq(parts, k + 1, Len(parts))) = StrOf(right)

\* an addition with a resolved node whose operands have different, non-empty texts
C8_Witness ==
    /\ Returned({"add"})
    /\ last.args[2].k = "BinOp"
    /\ last.recv.s # <<>>
    /\ StrOf(last.args[1]) # <<>>
    /\ StrOf(last.args[1]) # last.recv.s

TrimmedFrom(p, q, op, args) ==
    /\ IsFValue(p) = IsFValue(q)
    /\ IsFValue(p) => (q.source = p.source /\ q.value = p.value)
    /\ Displayed(q) = PlainStrip(Displayed(p), op, args)

\* C10: what a strip operation returns holds the receiver's parts from some
\* position on; the part at a trimmed end is the receiver's part trimmed, an
\* FValue keeping its source and value, every other part is identical to the
\* receiver's, and the receiver is unchanged.
C10_StripFrame ==
    Returned(StripOps) =>
        LET P == last.recv.parts
            Q == last.val.parts
            a == IF last.op = "rstrip" THEN {0}
                 ELSE IF last.op = "lstrip" THEN {Len(P) - Len(Q)}
                 ELSE 0..(Len(P) - Len(Q))
        IN  /\ self = last.recv
            /\ Len(Q) <= Len(P)
            /\ \E d \in a :
                 \A i \in 1..Len(Q) :
                   IF i \in TrimmedEnds(last.op, Q)
                   THEN \E o \in (IF last.op = "strip" THEN StripOps ELSE {last.op}) :
                            TrimmedFrom(P[d + i], Q[i], o, last.args)
                   ELSE Q[i] = P[d + i]

\* an FValue at the trimmed end was shortened and another part follows it
C10_Witness ==
    /\ Returned({"lstrip"})
    /\ Len(last.val.parts) >= 2
    /\ IsFValue(last.val.parts[1])
    /\ \E i \in 1..Len(last.recv.parts) :
         /\ IsFValue(last.recv.parts[i])
         /\ last.recv.parts[i].source = last.val.parts[1].source
         /\ Len(Displayed(last.recv.parts[i])) > Len(Displayed(last.val.parts[1]))
====
